---- MODULE Spec2Model ----
(***************************************************************************)
(* Model of the strategy estimator (predict_strategy), the telemetry       *)
(* comparator (get_detailed_telemetry), the session loader wrapper         *)
(* (get_session_safe) of src/utils/f1_data.py and of the two POST routes   *)
(* of src/app.py that call them.                                           *)
(*                                                                         *)
(* Conventions.                                                            *)
(*  - A Python string is a sequence of text fragments; "" is << >>.        *)
(*  - None is a record with isNone = TRUE.                                 *)
(*  - Lap times are whole seconds.  A fitted line is kept exactly, as the  *)
(*    numerators of slope and intercept over one positive denominator, and *)
(*    round(x, n) rounds that exact value to the nearest decimal.          *)
(*  - A call of the external timing or data-frame library either succeeds  *)
(*    or raises; which one is an input (world.load, world.faults).  Every  *)
(*    exception the libraries raise carries a non-empty message.           *)
(***************************************************************************)
EXTENDS Integers, Sequences, FiniteSets, TLC

VARIABLES route, method, form, world, pc, ret, tmpl

vars == <<route, method, form, world, pc, ret, tmpl>>

(***************************************************************************)
(* Bounds of the explored inputs.                                          *)
(***************************************************************************)
MaxLaps == 2
MaxStops == 3

(***************************************************************************)
(* Program constants.                                                      *)
(***************************************************************************)
ReferenceYear == 2023
RaceLaps == 57
stop_penalty == 22
QuickLapThresholdPct == 107

TRACKS == {"Monaco"}
DRIVERS == {"VER", "HAM"}
Compounds == {"SOFT", "MEDIUM", "HARD", "INTER"}

(***************************************************************************)
(* Python values.                                                          *)
(***************************************************************************)
NoneData == [isNone |-> TRUE]
NoneErr == [isNone |-> TRUE, text |-> << >>]
Str(s) == [isNone |-> FALSE, text |-> s]
Truthy(v) == ~v.isNone /\ (("text" \in DOMAIN v) => v.text # << >>)

NoExc == [kind |-> "none", msg |-> << >>]
Exc(k, m) == [kind |-> k, msg |-> m]

Digit(d) == <<"0", "1", "2", "3", "4", "5", "6", "7", "8", "9">>[d + 1]

RECURSIVE StrNat(_)
StrNat(n) == IF n < 10 THEN <<Digit(n)>> ELSE StrNat(n \div 10) \o <<Digit(n % 10)>>

StrInt(n) == IF n < 0 THEN <<"-">> \o StrNat(0 - n) ELSE StrNat(n)

RECURSIVE Join(_, _)
Join(sep, parts) ==
    IF parts = << >> THEN << >>
    ELSE IF Len(parts) = 1 THEN parts[1]
    ELSE parts[1] \o <<sep>> \o Join(sep, Tail(parts))

\* int(v) of a form value: a missing field is None, a non-numeric text has no
\* integer reading.
int(v) ==
    IF v.kind = "missing"
    THEN [exc |-> Exc("TypeError",
                      <<"int() argument must be a string, a bytes-like object or a real number, not 'NoneType'">>),
          val |-> 0]
    ELSE IF v.kind = "text"
    THEN [exc |-> Exc("ValueError",
                      <<"invalid literal for int() with base 10: '", v.text, "'">>),
          val |-> 0]
    ELSE [exc |-> NoExc, val |-> v.val]

\* round(x, n) of the float nearest to num / den (den > 0), as an integer count
\* of the last kept decimal.  An exact decimal tie is not a binary float: the
\* float lies just above or just below it, and tie_up says which.
round(num, den, tie_up) ==
    LET q == num \div den
        r == num - q * den
    IN  IF 2 * r < den THEN q
        ELSE IF 2 * r > den THEN q + 1
        ELSE IF tie_up THEN q + 1 ELSE q

(***************************************************************************)
(* The session loader.                                                     *)
(***************************************************************************)
NoSession == [isNone |-> TRUE]

LoaderCaught == {"ValueError", "IndexError", "KeyError"}

\* get_session_safe: int(year), get_session and load inside one try.
get_session_safe(year, track, w) ==
    LET y == int(year)
        k == IF y.exc.kind # "none" THEN y.exc.kind
             ELSE IF w.load # "ok" THEN w.load
             ELSE "none"
    IN  IF k = "none" THEN [raised |-> NoExc, session |-> w.session]
        ELSE IF k \in LoaderCaught THEN [raised |-> NoExc, session |-> NoSession]
        ELSE [raised |-> Exc(k, <<k, " raised by ", "load">>), session |-> NoSession]

(***************************************************************************)
(* Lap tables.                                                             *)
(***************************************************************************)
RECURSIVE SetSum(_, _)
SetSum(S, f) ==
    IF S = {} THEN 0
    ELSE LET l == CHOOSE x \in S : TRUE
             v == CASE f = "x"  -> l.LapNumber
                    [] f = "y"  -> l.LapTime
                    [] f = "xx" -> l.LapNumber * l.LapNumber
                    [] f = "xy" -> l.LapNumber * l.LapTime
         IN  v + SetSum(S \ {l}, f)

Timed(laps) == {l \in laps : l.HasTime}

MinLapTime(laps) == CHOOSE t \in {l.LapTime : l \in laps} : \A l \in laps : t <= l.LapTime

\* Laps.pick_quicklaps(): laps strictly faster than 107% of the fastest lap.
pick_quicklaps(laps) ==
    LET timed == Timed(laps)
    IN  IF timed = {} THEN {}
        ELSE {l \in timed : 100 * l.LapTime < QuickLapThresholdPct * MinLapTime(timed)}

\* dropna(subset=['LapNumber', 'LapTime'])
dropna(laps) == {l \in laps : l.HasTime}

pick_driver(laps, d) == {l \in laps : l.Driver = d}

(***************************************************************************)
(* predict_strategy                                                        *)
(***************************************************************************)
\* LinearRegression().fit(X, y): least squares; all lap numbers equal gives
\* slope 0 and intercept mean(y).  slope = sn/den, intercept = inn/den.
fit(laps) ==
    LET n   == Cardinality(laps)
        sx  == SetSum(laps, "x")
        sy  == SetSum(laps, "y")
        sxx == SetSum(laps, "xx")
        sxy == SetSum(laps, "xy")
        d   == n * sxx - sx * sx
        c   == n * sxy - sx * sy
    IN  IF d = 0 THEN [sn |-> 0, inn |-> sy, den |-> n]
        ELSE [sn |-> n * c, inn |-> sy * d - c * sx, den |-> n * d]

\* the race distance taken one lap short: np.arange(1, 57)
future_laps_short == [i \in 1..(RaceLaps - 1) |-> i]

\* np.arange(1, 58)
future_laps == [i \in 1..RaceLaps |-> i]

\* model.predict(future_laps): numerators over fit.den
predict(model, xs) == [i \in 1..Len(xs) |-> model.inn + model.sn * xs[i]]

\* pit windows by stop count
StopLaps(stops) ==
    IF stops = 1 THEN <<25>>
    ELSE IF stops = 2 THEN <<18, 38>>
    ELSE << >>

\* the HARD branch subtracting like the SOFT branch
CompoundDelta_HardSubtracts(compound) ==
    IF compound = "SOFT" THEN -1
    ELSE IF compound = "HARD" THEN -1
    ELSE 0

\* compound delta in half seconds
CompoundDelta(compound) ==
    IF compound = "SOFT" THEN -1
    ELSE IF compound = "HARD" THEN 1
    ELSE 0

InList(x, s) == \E i \in 1..Len(s) : s[i] = x

\* One lap of the aggregation loop, in units of 1/(2*den) seconds.
AdjustedTime(time, lap_num, compound, stop_laps, den) ==
    2 * time + CompoundDelta(compound) * den
    + (IF InList(lap_num, stop_laps) THEN 2 * stop_penalty * den ELSE 0)

RECURSIVE Aggregate(_, _, _, _, _, _)
Aggregate(base_pace, i, compound, stop_laps, den, acc) ==
    IF i >= Len(base_pace) THEN acc
    ELSE Aggregate(base_pace, i + 1, compound, stop_laps, den,
                   acc + AdjustedTime(base_pace[i + 1], i + 1, compound, stop_laps, den))

StopStr(stops, stop_laps) ==
    IF stops > 0
    THEN Join(", ", [i \in 1..Len(stop_laps) |-> <<"Lap ">> \o StrInt(stop_laps[i])])
    ELSE <<"No Stops">>

HistoricalDataUnavailable == <<"Historical data unavailable for this track.">>

NoLocals == [fit |-> [sn |-> 0, inn |-> 0, den |-> 1], n_laps |-> 0,
             stop_laps |-> << >>, race_time_total |-> 0, summed |-> 0]

Returned(data, err, log, loc) ==
    [status |-> "returned", data |-> data, err |-> err, exc |-> NoExc,
     log |-> log, locals |-> loc]
Raised(e, log, loc) ==
    [status |-> "raised", data |-> NoneData, err |-> NoneErr, exc |-> e,
     log |-> log, locals |-> loc]

StrategyCaught == {"ValueError", "IndexError", "KeyError"}

\* the handler returning None, None
StrategyExcept_NoMessage(e, log, loc) ==
    IF e.kind \in StrategyCaught THEN Returned(NoneData, NoneErr, log, loc)
    ELSE Raised(e, log, loc)

\* except (ValueError, IndexError, KeyError) as e: return None, str(e)
StrategyExcept(e, log, loc) ==
    IF e.kind \in StrategyCaught THEN Returned(NoneData, Str(e.msg), log, loc)
    ELSE Raised(e, log, loc)

LibraryFault(w, step) == Exc(w.faults[step], <<w.faults[step], " raised by ", step>>)

\* the try block of predict_strategy
StrategyTry(session, compound, stops, w, tie_up) ==
    IF w.faults["laps"] # "ok"
    THEN StrategyExcept(LibraryFault(w, "laps"), <<"load", "laps">>, NoLocals)
    ELSE
    LET laps == dropna(pick_quicklaps(session.laps))
    IN  IF laps = {}
        THEN StrategyExcept(
                 Exc("ValueError",
                     <<"Found array with 0 sample(s) (shape=(0, 1)) while a minimum of 1 is required by LinearRegression.">>),
                 <<"load", "laps", "fit">>, NoLocals)
        ELSE
        LET model == fit(laps)
            base_pace == predict(model, future_laps)
            n == int(stops)
            loc0 == [NoLocals EXCEPT !.fit = model, !.n_laps = Cardinality(laps)]
        IN  IF n.exc.kind # "none"
            THEN StrategyExcept(n.exc, <<"load", "laps", "fit", "predict", "int">>, loc0)
            ELSE
            LET stop_laps == StopLaps(n.val)
                total == Aggregate(base_pace, 0, compound, stop_laps, model.den, 0)
            IN  Returned(
                    [isNone |-> FALSE,
                     total_time_min |-> round(100 * total, 2 * model.den * 60, tie_up),
                     degradation |-> round(10000 * model.sn, model.den, tie_up),
                     stop_recommendation |-> StopStr(n.val, stop_laps)],
                    NoneErr,
                    <<"load", "laps", "fit", "predict", "int", "aggregate">>,
                    [loc0 EXCEPT !.stop_laps = stop_laps,
                                 !.race_time_total = total,
                                 !.summed = Len(base_pace)])

\* the "if not session" guard left out: the try block reads None.laps
predict_strategy_no_guard(track, compound, stops, w, tie_up) ==
    LET s == get_session_safe([kind |-> "int", val |-> ReferenceYear], track, w)
    IN  IF s.raised.kind # "none" THEN Raised(s.raised, <<"load">>, NoLocals)
        ELSE IF s.session.isNone
        THEN Raised(Exc("AttributeError", <<"'NoneType' object has no attribute 'laps'">>),
                    <<"load", "laps">>, NoLocals)
        ELSE StrategyTry(s.session, compound, stops, w, tie_up)

predict_strategy(track, compound, stops, w, tie_up) ==
    LET s == get_session_safe([kind |-> "int", val |-> ReferenceYear], track, w)
    IN  IF s.raised.kind # "none" THEN Raised(s.raised, <<"load">>, NoLocals)
        ELSE IF s.session.isNone
        THEN Returned(NoneData, Str(HistoricalDataUnavailable), <<"load">>, NoLocals)
        ELSE StrategyTry(s.session, compound, stops, w, tie_up)

(***************************************************************************)
(* get_detailed_telemetry                                                  *)
(***************************************************************************)
Min(a, b) == IF a < b THEN a ELSE b

TwoDigits(n) == <<Digit(n \div 10), Digit(n % 10)>>

\* str(Timedelta) of a whole number of seconds: "D days HH:MM:SS"
StrTimedelta(t) ==
    StrNat(t \div 86400) \o <<" days ">> \o TwoDigits((t % 86400) \div 3600)
    \o <<":">> \o TwoDigits((t % 3600) \div 60) \o <<":">> \o TwoDigits(t % 60)

\* s.split(' days ')[-1]
RECURSIVE AfterDays(_)
AfterDays(s) ==
    IF \E i \in 1..Len(s) : s[i] = " days "
    THEN AfterDays(SubSeq(s, 1 + (CHOOSE i \in 1..Len(s) : s[i] = " days "
                                     /\ \A j \in 1..(i - 1) : s[j] # " days "), Len(s)))
    ELSE s

\* s[0:10]
First10(s) == SubSeq(s, 1, Min(10, Len(s)))

\* rows of one driver's lap table in recorded order (ascending lap number)
RECURSIVE Rows(_)
Rows(laps) ==
    IF laps = {} THEN << >>
    ELSE LET first == CHOOSE l \in laps : \A m \in laps : l.LapNumber <= m.LapNumber
         IN  <<first>> \o Rows(laps \ {first})

\* one entry of pace_data
PaceEntry(d, laps) ==
    LET df == Rows(dropna(laps))
    IN  [driver |-> d,
         x |-> [i \in 1..Len(df) |-> df[i].LapNumber],
         y |-> [i \in 1..Len(df) |-> df[i].LapTime]]

NoLap == [isNone |-> TRUE]

\* Laps.pick_fastest(): the first row with the least lap time, None when no
\* row has a lap time
pick_fastest(laps) ==
    LET df == Rows(Timed(laps))
        i  == CHOOSE k \in 1..Len(df) :
                  /\ \A j \in 1..Len(df) : df[k].LapTime <= df[j].LapTime
                  /\ \A j \in 1..(k - 1) : df[j].LapTime > df[k].LapTime
    IN  IF df = << >> THEN NoLap ELSE df[i]

TelemetrySamples == [Distance |-> <<0, 250, 500>>, Speed |-> <<280, 95, 310>>]

\* extract_tel without its try/except
ExtractCaught_Nothing == {}

ExtractCaught == {"ValueError", "IndexError", "KeyError"}

\* extract_tel(lap, driver_code)
extract_tel(lap, driver_code, w, step) ==
    IF "isNone" \in DOMAIN lap
    THEN [raised |-> Exc("AttributeError",
                         <<"'NoneType' object has no attribute 'get_telemetry'">>),
          val |-> NoneData]
    ELSE IF w.faults[step] = "ok"
    THEN [raised |-> NoExc,
          val |-> [isNone |-> FALSE,
                   driver |-> driver_code,
                   distance |-> TelemetrySamples.Distance,
                   speed |-> TelemetrySamples.Speed,
                   lap_time |-> First10(AfterDays(StrTimedelta(lap.LapTime)))]]
    ELSE IF w.faults[step] \in ExtractCaught
    THEN [raised |-> NoExc, val |-> NoneData]
    ELSE [raised |-> LibraryFault(w, step), val |-> NoneData]

\* if t1: append; if t2: append
TelemetryData(t1, t2) ==
    (IF Truthy(t1) THEN <<t1>> ELSE << >>) \o (IF Truthy(t2) THEN <<t2>> ELSE << >>)

WinnerNA == [name |-> <<"N/A">>, team |-> <<"N/A">>, time |-> <<"N/A">>]

WinnerCaught == {"IndexError", "KeyError", "ValueError"}

\* the body of the inner try around the winner lookup
WinnerTry(results, w) ==
    IF w.faults["winner"] # "ok" THEN [exc |-> LibraryFault(w, "winner"), val |-> WinnerNA]
    ELSE IF "Position" \notin results.columns
    THEN [exc |-> Exc("KeyError", <<"'Position'">>), val |-> WinnerNA]
    ELSE
    LET winner_df == SelectSeq(results.rows, LAMBDA r : r.Position = 1)
    IN  IF winner_df = << >>
        THEN [exc |-> Exc("IndexError", <<"No driver found with Position 1.0">>),
              val |-> WinnerNA]
        ELSE IF "Abbreviation" \notin results.columns
        THEN [exc |-> Exc("KeyError", <<"'Abbreviation'">>), val |-> WinnerNA]
        ELSE IF "TeamName" \notin results.columns
        THEN [exc |-> Exc("KeyError", <<"'TeamName'">>), val |-> WinnerNA]
        ELSE IF "Time" \notin results.columns
        THEN [exc |-> Exc("KeyError", <<"'Time'">>), val |-> WinnerNA]
        ELSE [exc |-> NoExc,
              val |-> [name |-> <<winner_df[1].Abbreviation>>,
                       team |-> <<winner_df[1].TeamName>>,
                       time |-> AfterDays(StrTimedelta(winner_df[1].Time))]]

\* try: ... except (IndexError, KeyError, ValueError): winner_info = N/A
WinnerInfo(results, w) ==
    LET t == WinnerTry(results, w)
    IN  IF t.exc.kind = "none" THEN [raised |-> NoExc, val |-> t.val]
        ELSE IF t.exc.kind \in WinnerCaught THEN [raised |-> NoExc, val |-> WinnerNA]
        ELSE [raised |-> t.exc, val |-> WinnerNA]

EventName(race) == <<race, " Grand Prix">>

YearText(year) ==
    IF year.kind = "missing" THEN <<"None">>
    ELSE IF year.kind = "text" THEN <<year.text>>
    ELSE StrInt(year.val)

SessionNotFound(race, year) == <<"Session data not found for ", race, " ">> \o YearText(year)

DriverDataUnavailable == <<"Driver data unavailable.">>

\* "and" in place of "or"
EitherEmpty_Both(laps_d1, laps_d2) == laps_d1 = {} /\ laps_d2 = {}

EitherEmpty(laps_d1, laps_d2) == laps_d1 = {} \/ laps_d2 = {}

TelLocals(e1, e2) == [empty1 |-> e1, empty2 |-> e2]

TelemetryCaught == {"ValueError", "IndexError", "KeyError"}

\* except (ValueError, IndexError, KeyError) as e: return None, str(e)
TelemetryExcept(e, log, loc) ==
    IF e.kind \in TelemetryCaught THEN Returned(NoneData, Str(e.msg), log, loc)
    ELSE Raised(e, log, loc)

\* the try block of get_detailed_telemetry after the empty check
TelemetryRest(session, race, d1, d2, laps_d1, laps_d2, w) ==
    LET loc == TelLocals(FALSE, FALSE)
    IN
    IF w.faults["pace"] # "ok"
    THEN TelemetryExcept(LibraryFault(w, "pace"), <<"load", "laps", "pace">>, loc)
    ELSE IF w.faults["fastest"] # "ok"
    THEN TelemetryExcept(LibraryFault(w, "fastest"), <<"load", "laps", "pace", "fastest">>, loc)
    ELSE
    LET pace_data == <<PaceEntry(d1, laps_d1), PaceEntry(d2, laps_d2)>>
        fastest_d1 == pick_fastest(laps_d1)
        fastest_d2 == pick_fastest(laps_d2)
        t1 == extract_tel(fastest_d1, d1, w, "tel1")
    IN  IF t1.raised.kind # "none"
        THEN TelemetryExcept(t1.raised, <<"load", "laps", "pace", "fastest", "tel1">>, loc)
        ELSE
        LET t2 == extract_tel(fastest_d2, d2, w, "tel2")
        IN  IF t2.raised.kind # "none"
            THEN TelemetryExcept(t2.raised,
                                 <<"load", "laps", "pace", "fastest", "tel1", "tel2">>, loc)
            ELSE
            LET wi == WinnerInfo(session.results, w)
            IN  IF wi.raised.kind # "none"
                THEN TelemetryExcept(wi.raised,
                         <<"load", "laps", "pace", "fastest", "tel1", "tel2", "winner">>, loc)
                ELSE IF w.faults["event"] # "ok"
                THEN TelemetryExcept(LibraryFault(w, "event"),
                         <<"load", "laps", "pace", "fastest", "tel1", "tel2", "winner", "event">>,
                         loc)
                ELSE Returned(
                         [isNone |-> FALSE,
                          race_name |-> EventName(race),
                          pace_data |-> pace_data,
                          telemetry_data |-> TelemetryData(t1.val, t2.val),
                          winner_info |-> wi.val],
                         NoneErr,
                         <<"load", "laps", "pace", "fastest", "tel1", "tel2", "winner", "event">>,
                         loc)

get_detailed_telemetry(year, race, d1, d2, w) ==
    LET s == get_session_safe(year, race, w)
    IN  IF s.raised.kind # "none" THEN Raised(s.raised, <<"load">>, TelLocals(FALSE, FALSE))
        ELSE IF s.session.isNone
        THEN Returned(NoneData, Str(SessionNotFound(race, year)), <<"load">>,
                      TelLocals(FALSE, FALSE))
        ELSE IF w.faults["laps"] # "ok"
        THEN TelemetryExcept(LibraryFault(w, "laps"), <<"load", "laps">>,
                             TelLocals(FALSE, FALSE))
        ELSE
        LET laps_d1 == pick_quicklaps(pick_driver(s.session.laps, d1))
            laps_d2 == pick_quicklaps(pick_driver(s.session.laps, d2))
        IN  IF EitherEmpty(laps_d1, laps_d2)
            THEN Returned(NoneData, Str(DriverDataUnavailable), <<"load", "laps">>,
                          TelLocals(laps_d1 = {}, laps_d2 = {}))
            ELSE TelemetryRest(s.session, race, d1, d2, laps_d1, laps_d2, w)

(***************************************************************************)
(* get_circuit_layout and the routes of app.py                             *)
(***************************************************************************)
LayoutCaught == {"ValueError", "KeyError", "IndexError"}

\* get_circuit_layout(track): the qualifying session's fastest-lap trace, None
\* when the load or the extraction fails with a caught exception.
get_circuit_layout(track, w) ==
    IF w.layout = "ok"
    THEN [raised |-> NoExc, val |-> [isNone |-> FALSE, name |-> EventName(track)]]
    ELSE IF w.layout \in LayoutCaught THEN [raised |-> NoExc, val |-> NoneData]
    ELSE [raised |-> Exc(w.layout, <<w.layout, " raised by ", "layout">>), val |-> NoneData]

Pending == [status |-> "pending", data |-> NoneData, err |-> NoneErr, exc |-> NoExc,
            log |-> << >>, locals |-> NoLocals]

NotRendered == [rendered |-> FALSE, result |-> NoneData, error |-> NoneErr,
                mapJSON |-> NoneData, charts |-> << >>]

\* data, err = f(...); if err: error = err; elif data: result = data
Unpack(r) ==
    [result |-> IF ~Truthy(r.err) /\ Truthy(r.data) THEN r.data ELSE NoneData,
     error  |-> IF Truthy(r.err) THEN r.err ELSE NoneErr]

\* the traces of the two charts built from a result
Charts(r) ==
    IF ~Truthy(r.err) /\ Truthy(r.data)
    THEN <<[i \in 1..Len(r.data.telemetry_data) |-> r.data.telemetry_data[i].driver],
           [i \in 1..Len(r.data.pace_data) |-> r.data.pace_data[i].driver]>>
    ELSE << >>

(***************************************************************************)
(* Requests and the data the external provider holds for them.             *)
(***************************************************************************)
LapNumbers == {1, 2}
LapTimes == {90, 96, 120}

LapKeys == DRIVERS \X LapNumbers

\* a recorded lap time, or none (HasTime = FALSE) for an incomplete lap
TimeCells == [HasTime : {TRUE}, LapTime : LapTimes] \cup [HasTime : {FALSE}, LapTime : {0}]

LapRow(key, cell) ==
    [Driver |-> key[1], LapNumber |-> key[2], HasTime |-> cell.HasTime, LapTime |-> cell.LapTime]

\* lap tables of at most MaxLaps rows, one row per driver and lap number
LapTables ==
    UNION {{{LapRow(k, f[k]) : k \in K} : f \in [K -> TimeCells]} :
              K \in {J \in SUBSET LapKeys : Cardinality(J) <= MaxLaps}}

AllColumns == {"Position", "Abbreviation", "TeamName", "Time"}

ResultRows(first) ==
    <<[Position |-> first, Abbreviation |-> "VER", TeamName |-> "Red Bull Racing", Time |-> 5400],
      [Position |-> first + 1, Abbreviation |-> "HAM", TeamName |-> "Mercedes", Time |-> 5412]>>

ResultsFull == [columns |-> AllColumns, rows |-> ResultRows(1)]
ResultsNoWinner == [columns |-> AllColumns, rows |-> ResultRows(2)]
ResultsNoTeam == [columns |-> AllColumns \ {"TeamName"}, rows |-> ResultRows(1)]
ResultTables == {ResultsFull, ResultsNoWinner, ResultsNoTeam}

LibraryFaults == {"KeyError", "RuntimeError"}
Outcomes == {"ok"} \cup LibraryFaults

FaultSteps == <<"laps", "pace", "fastest", "tel1", "tel2", "winner", "event">>
StepNames == {FaultSteps[i] : i \in 1..Len(FaultSteps)}
NoFaults == [s \in StepNames |-> "ok"]

SessionOf(laps, results) == [isNone |-> FALSE, laps |-> laps, results |-> results]
WorldOf(layout, load, session, faults) ==
    [layout |-> layout, load |-> load, session |-> session, faults |-> faults]
DefaultWorld == WorldOf("ok", "ok", SessionOf({}, ResultsFull), NoFaults)

StopValues ==
    {[kind |-> "missing", text |-> "", val |-> 0], [kind |-> "text", text |-> "abc", val |-> 0]}
    \cup {[kind |-> "int", text |-> "", val |-> v] : v \in (0 - 1)..MaxStops}

YearValues ==
    {[kind |-> "missing", text |-> "", val |-> 0], [kind |-> "text", text |-> "abc", val |-> 0],
     [kind |-> "int", text |-> "", val |-> ReferenceYear]}

\* a circuit name the provider does not know
UnknownTrack == "Atlantis"

SimulatorForms == [track : TRACKS \cup {UnknownTrack}, compound : Compounds, stops : StopValues]
TelemetryForms ==
    [year : YearValues, race : TRACKS \cup {UnknownTrack}, d1 : DRIVERS, d2 : DRIVERS]
NoForm == [empty |-> TRUE]

\* A step after which nothing else of the request is read from the provider.
Stops(step, k) ==
    k # "ok" /\ (step \in {"laps", "pace", "fastest", "event"} \/ k = "RuntimeError")

\* Fault plans that name no failure of a call that is never made.
FaultPlans ==
    {p \in [StepNames -> Outcomes] :
        \A i, j \in 1..Len(FaultSteps) :
            (i < j /\ Stops(FaultSteps[i], p[FaultSteps[i]])) => p[FaultSteps[j]] = "ok"}

StepIndex(step) == CHOOSE i \in 1..Len(FaultSteps) : FaultSteps[i] = step
OkBefore(p, step) == \A i \in 1..(StepIndex(step) - 1) : ~Stops(FaultSteps[i], p[FaultSteps[i]])

\* Results tables and fault plans for a session whose lap tables are read: a
\* results table other than the full one only where the winner lookup reads it.
ResultPlans ==
    {x \in ResultTables \X FaultPlans :
        /\ x[2]["laps"] = "ok"
        /\ (x[1] # ResultsFull => (OkBefore(x[2], "winner") /\ x[2]["winner"] = "ok"))}

\* one of the two named drivers has no representative lap in table t
NoQuickLaps(t, f) ==
    \/ \A l \in t : l.Driver = f.d1 => ~l.HasTime
    \/ \A l \in t : l.Driver = f.d2 => ~l.HasTime

\* What the provider holds for a simulator request: an unknown circuit fails
\* to load; otherwise the layout lookup, the load or the lap filtering may
\* fail, or a lap table is read.
SimulatorWorld(f, w) ==
    IF f.track = UnknownTrack
    THEN w = WorldOf("ValueError", "ValueError", NoSession, NoFaults)
    ELSE \/ \E laps \in LapTables :
               w = WorldOf("ok", "ok", SessionOf(laps, ResultsFull), NoFaults)
         \/ \E k \in LibraryFaults :
               w = WorldOf("ok", "ok", SessionOf({}, ResultsFull),
                           [NoFaults EXCEPT !["laps"] = k])
         \/ \E ld \in LibraryFaults : w = WorldOf("ok", ld, NoSession, NoFaults)
         \/ \E lay \in LibraryFaults :
               w = WorldOf(lay, "ok", SessionOf({}, ResultsFull), NoFaults)

\* What the provider holds for a telemetry request naming drivers d1, d2.
TelemetryWorld(f, w) ==
    IF f.year.kind # "int" THEN w = DefaultWorld
    ELSE IF f.race = UnknownTrack
    THEN w = WorldOf("ok", "ValueError", NoSession, NoFaults)
    ELSE \/ \E t \in LapTables :
               /\ NoQuickLaps(t, f)
               /\ w = WorldOf("ok", "ok", SessionOf(t, ResultsFull), NoFaults)
         \/ \E x \in ResultPlans : \E t \in LapTables :
               /\ ~NoQuickLaps(t, f)
               /\ w = WorldOf("ok", "ok", SessionOf(t, x[1]), x[2])
         \/ \E k \in LibraryFaults :
               w = WorldOf("ok", "ok", SessionOf({}, ResultsFull),
                           [NoFaults EXCEPT !["laps"] = k])
         \/ \E ld \in LibraryFaults : w = WorldOf("ok", ld, NoSession, NoFaults)

Init ==
    /\ pc = "received"
    /\ ret = Pending
    /\ tmpl = NotRendered
    /\ \/ /\ route = "simulator"
          /\ \/ method = "GET" /\ form = NoForm /\ world = DefaultWorld
             \/ method = "POST" /\ form \in SimulatorForms /\ SimulatorWorld(form, world)
       \/ /\ route = "telemetry"
          /\ \/ method = "GET" /\ form = NoForm /\ world = DefaultWorld
             \/ method = "POST" /\ form \in TelemetryForms /\ TelemetryWorld(form, world)

(***************************************************************************)
(* The routes.                                                             *)
(***************************************************************************)
\* GET /simulator or /telemetry: the empty form
RenderForm ==
    /\ pc = "received"
    /\ method = "GET"
    /\ pc' = "rendered"
    /\ tmpl' = [NotRendered EXCEPT !.rendered = TRUE]
    /\ UNCHANGED <<route, method, form, world, ret>>

\* POST /simulator
simulator ==
    /\ pc = "received"
    /\ route = "simulator"
    /\ method = "POST"
    /\ \E tie_up \in BOOLEAN :
       LET circuit_data == get_circuit_layout(form.track, world)
           r == predict_strategy(form.track, form.compound, form.stops, world, tie_up)
       IN  IF circuit_data.raised.kind # "none"
           THEN /\ pc' = "raised"
                /\ UNCHANGED <<ret, tmpl>>
           ELSE /\ ret' = r
                /\ IF r.status = "raised"
                   THEN pc' = "raised" /\ UNCHANGED tmpl
                   ELSE /\ pc' = "rendered"
                        /\ tmpl' = [rendered |-> TRUE,
                                    result |-> Unpack(r).result,
                                    error |-> Unpack(r).error,
                                    mapJSON |-> circuit_data.val,
                                    charts |-> << >>]
    /\ UNCHANGED <<route, method, form, world>>

\* POST /telemetry
telemetry ==
    /\ pc = "received"
    /\ route = "telemetry"
    /\ method = "POST"
    /\ LET r == get_detailed_telemetry(form.year, form.race, form.d1, form.d2, world)
       IN  /\ ret' = r
           /\ IF r.status = "raised"
              THEN pc' = "raised" /\ UNCHANGED tmpl
              ELSE /\ pc' = "rendered"
                   /\ tmpl' = [rendered |-> TRUE,
                               result |-> Unpack(r).result,
                               error |-> Unpack(r).error,
                               mapJSON |-> NoneData,
                               charts |-> Charts(r)]
    /\ UNCHANGED <<route, method, form, world>>

Next == RenderForm \/ simulator \/ telemetry

Spec == Init /\ [][Next]_vars

(***************************************************************************)
(* Properties.                                                             *)
(***************************************************************************)
StrategyCalled == route = "simulator" /\ method = "POST" /\ ret.status # "pending"
TelemetryCalled == route = "telemetry" /\ method = "POST" /\ ret.status # "pending"
StrategyResult == StrategyCalled /\ ret.status = "returned" /\ ~ret.data.isNone
TelemetryResult == TelemetryCalled /\ ret.status = "returned" /\ ~ret.data.isNone

CaughtKinds == {"ValueError", "IndexError", "KeyError"}

\* the race session of the request was loaded
SessionLoaded ==
    /\ world.load = "ok"
    /\ route = "telemetry" => form.year.kind = "int"

\* the loader returned None for the request
LoaderReturnedNone ==
    \/ world.load \in CaughtKinds
    \/ route = "telemetry" /\ form.year.kind = "text"

RepresentativeLaps == dropna(pick_quicklaps(world.session.laps))

\* C1: predict_strategy and get_detailed_telemetry never raise: whatever the
\* inputs and whatever fails inside them, the call returns.
C1_NoFaultEscapes == ret.status # "raised"

\* C2: every return of predict_strategy and get_detailed_telemetry is either
\* (populated result, None) or (None, non-empty error string), and after a POST
\* the template receives exactly one of result and error.
C2_ExactlyOneShape ==
    /\ ret.status = "returned" =>
          \/ /\ ~ret.data.isNone
             /\ ret.err.isNone
             /\ \/ {"total_time_min", "degradation", "stop_recommendation"} \subseteq DOMAIN ret.data
                \/ {"race_name", "pace_data", "telemetry_data", "winner_info"} \subseteq DOMAIN ret.data
          \/ /\ ret.data.isNone
             /\ ~ret.err.isNone
             /\ ret.err.text # << >>
    /\ (method = "POST" /\ pc = "rendered") =>
          /\ tmpl.result.isNone # tmpl.error.isNone
          /\ ~tmpl.result.isNone => tmpl.result = ret.data
          /\ ~tmpl.error.isNone => tmpl.error = ret.err

\* a handler turned an exception into an error return, which the route shows
C2_Witness ==
    /\ method = "POST"
    /\ pc = "rendered"
    /\ ret.data.isNone
    /\ Len(ret.log) > 1
    /\ ~tmpl.error.isNone
    /\ tmpl.result.isNone

StopDescription(n) ==
    IF n = 0 THEN <<"No Stops">>
    ELSE IF n = 1 THEN <<"Lap ", "2", "5">>
    ELSE <<"Lap ", "1", "8", ", ", "Lap ", "3", "8">>

\* C3: with a loaded session, at least 2 representative laps, no library
\* failure and stopCount in {0, 1, 2}, predict_strategy returns a result with
\* total_time_min > 0 and the stop description of that count.
C3_PositiveTotal ==
    (/\ StrategyCalled
     /\ SessionLoaded
     /\ world.faults = NoFaults
     /\ Cardinality(RepresentativeLaps) >= 2
     /\ form.stops.kind = "int"
     /\ form.stops.val \in 0..2)
    => /\ ret.status = "returned"
       /\ ~ret.data.isNone
       /\ ret.data.total_time_min > 0
       /\ ret.data.stop_recommendation = StopDescription(form.stops.val)

\* C4: stop_recommendation is "No Stops" exactly when the list of pit-stop
\* laps is empty, and otherwise the comma-joined "Lap N" list.
C4_NoStopsIffEmpty ==
    StrategyResult =>
       /\ (ret.data.stop_recommendation = <<"No Stops">>) <=> (ret.locals.stop_laps = << >>)
       /\ ret.locals.stop_laps # << >> =>
             ret.data.stop_recommendation =
                Join(", ", [i \in 1..Len(ret.locals.stop_laps) |->
                               <<"Lap ">> \o StrInt(ret.locals.stop_laps[i])])

TotalFor(compound, tie_up) ==
    predict_strategy(form.track, compound, form.stops, world, tie_up).data.total_time_min

\* C5: for the same lap data and stop count the returned total for SOFT is
\* below the one for MEDIUM, which is below the one for HARD, and any other
\* compound gives the total of MEDIUM.
C5_CompoundMonotonic ==
    StrategyResult =>
       /\ form.compound = "SOFT" =>
             \A u \in BOOLEAN : ret.data.total_time_min < TotalFor("MEDIUM", u)
       /\ form.compound = "MEDIUM" =>
             \A u \in BOOLEAN : /\ TotalFor("SOFT", u) < ret.data.total_time_min
                                /\ ret.data.total_time_min < TotalFor("HARD", u)
       /\ form.compound = "HARD" =>
             \A u \in BOOLEAN : TotalFor("MEDIUM", u) < ret.data.total_time_min
       /\ form.compound \notin {"SOFT", "MEDIUM", "HARD"} =>
             /\ \E u \in BOOLEAN : ret.data.total_time_min = TotalFor("MEDIUM", u)
             /\ \A u \in BOOLEAN : TotalFor(form.compound, u) = TotalFor("MEDIUM", u)

\* a MEDIUM estimate over a sloped line with one stop
C5_Witness ==
    /\ StrategyResult
    /\ form.compound = "MEDIUM"
    /\ ret.locals.fit.sn # 0
    /\ form.stops.val = 1

\* an estimate for an unrecognized compound
C5_WitnessOther == StrategyResult /\ form.compound = "INTER"

\* C6 as claimed: when the loader returns None, predict_strategy returns
\* (None, error) with an error that names the requested circuit, before any
\* lap filtering, regression or stop-count coercion.
C6_ErrorNamesCircuit ==
    (StrategyCalled /\ LoaderReturnedNone) =>
       /\ ret.status = "returned"
       /\ ret.data.isNone
       /\ ~ret.err.isNone
       /\ InList(form.track, ret.err.text)
       /\ ret.log = <<"load">>

\* C6 as amended: when the loader returns None, predict_strategy returns
\* (None, "Historical data unavailable for this track."), a fixed text that
\* does not name the circuit, before any lap filtering, regression or
\* stop-count coercion.
C6_FixedError ==
    (StrategyCalled /\ LoaderReturnedNone) =>
       /\ ret.status = "returned"
       /\ ret.data.isNone
       /\ ret.err = Str(<<"Historical data unavailable for this track.">>)
       /\ ~InList(form.track, ret.err.text)
       /\ ret.log = <<"load">>

\* the loader returned None for a known circuit and a stop count that would
\* not coerce
C6_Witness ==
    /\ StrategyCalled
    /\ world.load = "KeyError"
    /\ form.track \in TRACKS
    /\ form.stops.kind = "missing"
    /\ ret.status = "returned"

\* one of the two drivers has no representative lap in the loaded session
ADriverHasNoLaps ==
    /\ TelemetryCalled
    /\ SessionLoaded
    /\ world.faults["laps"] = "ok"
    /\ \/ pick_quicklaps(pick_driver(world.session.laps, form.d1)) = {}
       \/ pick_quicklaps(pick_driver(world.session.laps, form.d2)) = {}

\* C7: if either driver's representative-lap set is empty in a loaded session,
\* get_detailed_telemetry returns (None, error) and nothing of the other driver.
C7_NoPartialResult ==
    ADriverHasNoLaps =>
       /\ ret.status = "returned"
       /\ ret.data.isNone
       /\ ret.err = Str(<<"Driver data unavailable.">>)
       /\ ret.log = <<"load", "laps">>
       /\ pc = "rendered"
       /\ tmpl.result.isNone
       /\ tmpl.charts = << >>

\* the second driver has no representative lap while the first one has
C7_Witness ==
    /\ ADriverHasNoLaps
    /\ form.d1 # form.d2
    /\ pick_quicklaps(pick_driver(world.session.laps, form.d1)) # {}
    /\ pick_driver(world.session.laps, form.d2) # {}

\* telemetry extraction is reached and fails for exactly one driver, and no
\* other step fails
OneExtractionFails ==
    /\ TelemetryCalled
    /\ SessionLoaded
    /\ ~ADriverHasNoLaps
    /\ \A st \in {"laps", "pace", "fastest", "winner", "event"} : world.faults[st] = "ok"
    /\ (world.faults["tel1"] = "ok") # (world.faults["tel2"] = "ok")

\* C8: if telemetry extraction fails for exactly one driver, whatever the
\* failure, the call returns a result and no error, telemetry_data holds only
\* the other driver and pace_data holds both drivers in order.
C8_OtherDriverKept ==
    OneExtractionFails =>
       /\ ret.status = "returned"
       /\ ~ret.data.isNone
       /\ ret.err.isNone
       /\ Len(ret.data.telemetry_data) = 1
       /\ ret.data.telemetry_data[1].driver =
             (IF world.faults["tel1"] = "ok" THEN form.d1 ELSE form.d2)
       /\ Len(ret.data.pace_data) = 2
       /\ ret.data.pace_data[1].driver = form.d1
       /\ ret.data.pace_data[2].driver = form.d2

\* the loader returned None, the lap filtering failed or a driver has no laps
StepsOneTwoFailed ==
    \/ LoaderReturnedNone
    \/ SessionLoaded /\ world.faults["laps"] # "ok"
    \/ ADriverHasNoLaps

\* C9 as claimed: get_detailed_telemetry returns (None, error) only when the
\* session load or the lap filtering fails or a driver has no laps; a failure
\* of a later step never makes the outcome an error; an absent or malformed
\* position-1 row gives winner_info N/A.
C9_ErrorOnlyFromStepsOneTwo ==
    /\ (TelemetryCalled /\ ret.status = "returned" /\ ~ret.err.isNone) => StepsOneTwoFailed
    /\ (TelemetryResult /\ world.session.results # ResultsFull) =>
          ret.data.winner_info = [name |-> <<"N/A">>, team |-> <<"N/A">>, time |-> <<"N/A">>]

\* pace-series building, fastest-lap selection or the event-name lookup is
\* reached and raises a ValueError, IndexError or KeyError
OuterStepFailed ==
    /\ SessionLoaded
    /\ ~ADriverHasNoLaps
    /\ \E st \in {"pace", "fastest", "event"} : world.faults[st] \in CaughtKinds

\* C9 as amended: a return of get_detailed_telemetry is (None, error) exactly
\* when the load or the lap filtering fails, a driver has no laps, or
\* pace-series building, fastest-lap selection or the event-name lookup raises
\* a ValueError, IndexError or KeyError; such an exception in telemetry
\* extraction or in the winner lookup never makes the return an error; an
\* absent or malformed position-1 row gives winner_info N/A.
C9_ErrorCauses ==
    /\ (TelemetryCalled /\ ret.status = "returned") =>
          (~ret.err.isNone <=> (StepsOneTwoFailed \/ OuterStepFailed))
    /\ (TelemetryCalled /\ ret.status = "returned" /\ ~StepsOneTwoFailed /\ ~OuterStepFailed) =>
          /\ ~ret.data.isNone
          /\ Len(ret.data.telemetry_data) =
                Cardinality({st \in {"tel1", "tel2"} : world.faults[st] = "ok"})
    /\ (TelemetryResult /\ (world.session.results # ResultsFull \/ world.faults["winner"] # "ok")) =>
          ret.data.winner_info = [name |-> <<"N/A">>, team |-> <<"N/A">>, time |-> <<"N/A">>]
    /\ (TelemetryResult /\ world.session.results = ResultsFull /\ world.faults["winner"] = "ok") =>
          ret.data.winner_info.name = <<"VER">>

\* both extractions and the winner lookup fail with a caught exception and the
\* call still returns a result
C9_Witness ==
    /\ TelemetryResult
    /\ world.faults["tel1"] = "KeyError"
    /\ world.faults["tel2"] = "KeyError"
    /\ world.faults["winner"] = "KeyError"
    /\ ret.data.telemetry_data = << >>

\* the event-name lookup fails after everything else succeeded
C9_WitnessEvent ==
    /\ TelemetryCalled
    /\ ret.status = "returned"
    /\ world.faults["event"] = "KeyError"
    /\ ret.log[Len(ret.log)] = "event"
    /\ ~ret.err.isNone

NoDuplicates(seq) == \A i, j \in 1..Len(seq) : seq[i] = seq[j] => i = j

\* C10: the total accumulated by predict_strategy is the sum over laps 1..57 of
\* (intercept + slope*n + d), plus 22.0 once per tagged pit lap (25 for one
\* stop; 18 and 38 for two; none otherwise); 57 laps are summed, every tagged
\* lap lies in 1..57 and none is tagged twice.  Totals are in units of
\* 1/(2*den) seconds, 1653 = 1 + 2 + ... + 57.
C10_TotalIsSumOfLaps ==
    StrategyResult =>
       LET model == ret.locals.fit
           d2  == IF form.compound = "SOFT" THEN 0 - 1
                  ELSE IF form.compound = "HARD" THEN 1 ELSE 0
           n   == form.stops.val
           tagged == ret.locals.stop_laps
       IN  /\ ret.locals.summed = 57
           /\ tagged = (IF n = 1 THEN <<25>> ELSE IF n = 2 THEN <<18, 38>> ELSE << >>)
           /\ \A i \in 1..Len(tagged) : tagged[i] \in 1..57
           /\ NoDuplicates(tagged)
           /\ ret.locals.race_time_total =
                 2 * (57 * model.inn + 1653 * model.sn) + 57 * d2 * model.den
                 + 2 * 22 * model.den * Len(tagged)

\* a two-stop HARD estimate over a falling line
C10_Witness ==
    /\ StrategyResult
    /\ form.compound = "HARD"
    /\ form.stops.val = 2
    /\ ret.locals.fit.sn < 0

====
